---- MODULE Spec2Model ----
(***************************************************************************)
(* Model of app.py: the LLM code tester.  One run of main(): argument and  *)
(* path checks, the Ollama health probe, discovery of the JSON files, and  *)
(* for every test case the generate / extract / execute / retry / report   *)
(* sequence of LLMCodeTester.                                              *)
(*                                                                         *)
(* Text (LLM responses, code, prompts) is a sequence of tokens; a token is *)
(* a string.  The three-backtick fence, the tag "python" and whitespace    *)
(* are tokens of their own, every other token is one Python statement.    *)
(* Indices into text are 0-based as in Python.                             *)
(***************************************************************************)
EXTENDS Integers, Sequences, FiniteSets, TLC

\* ------------------------------------------------------------------ bounds
MaxFiles == 2
MaxRecords == 2
\* longest response text given to extract_python_code on its own, in tokens
MaxTextLen == 6
\* longest code given to execute_code_safely on its own, in statements
MaxCodeLen == 2

\* --------------------------------------------------------- configuration
\* MAX_RETRIES = 1 in the source; the run is explored with every budget 0..1
DefaultMaxRetries == 1
RetryBudgets == 0..DefaultMaxRetries

\* Python's None where a str is expected (result, error); no str equals it
None == "<None>"

\* ------------------------------------------------------------ JSON values
\* a parsed JSON value: t is its Python type, n the number (int, bool),
\* s the text (str), d the items of a dict in file order
JNull == [t |-> "NoneType", n |-> 0, s |-> "", d |-> <<>>]
JInt(i) == [t |-> "int", n |-> i, s |-> "", d |-> <<>>]
JBool(b) == [t |-> "bool", n |-> IF b THEN 1 ELSE 0, s |-> "", d |-> <<>>]
JStr(x) == [t |-> "str", n |-> 0, s |-> x, d |-> <<>>]
JDict(items) == [t |-> "dict", n |-> 0, s |-> "", d |-> items]

\* str(n) for the ints of the model
IntStr(i) ==
  CASE i = 0 -> "0"
    [] i = 1 -> "1"
    [] i = 2 -> "2"
    [] OTHER -> "3"

\* str(value)
Str(j) ==
  CASE j.t = "NoneType" -> "None"
    [] j.t = "int" -> IntStr(j.n)
    [] j.t = "bool" -> (IF j.n = 1 THEN "True" ELSE "False")
    [] j.t = "str" -> j.s
    [] OTHER -> "{...}"

\* bool(value)
Truthy(j) ==
  CASE j.t = "NoneType" -> FALSE
    [] j.t = "int" -> j.n # 0
    [] j.t = "bool" -> j.n = 1
    [] j.t = "str" -> j.s # ""
    [] OTHER -> Len(j.d) > 0

\* bool(x) of an Optional[str]
TruthyStr(x) == x # None /\ x # ""

\* dict.keys() and dict.get(key) on the items of a dict
Keys(items) == {items[i][1] : i \in 1..Len(items)}
Get(items, key) ==
  IF key \in Keys(items)
  THEN items[CHOOSE i \in 1..Len(items) : items[i][1] = key][2]
  ELSE JNull

\* ------------------------------------------------------------------- text
\* the three-backtick fence marker
FENCE == "<fence>"
PY == "python"
WS == " "

\* str.find(sub, start): lowest 0-based index >= start where sub occurs, or -1
Find(s, sub, start) ==
  LET hits == {i \in start..(Len(s) - Len(sub)) :
                 SubSeq(s, i + 1, i + Len(sub)) = sub}
  IN IF hits = {} THEN -1 ELSE CHOOSE i \in hits : \A k \in hits : i <= k

\* s[a:b]
Slice(s, a, b) == SubSeq(s, a + 1, b)

\* str.strip()
RECURSIVE LStrip(_)
LStrip(s) == IF s # <<>> /\ Head(s) = WS THEN LStrip(Tail(s)) ELSE s
RECURSIVE RStrip(_)
RStrip(s) ==
  IF s # <<>> /\ s[Len(s)] = WS THEN RStrip(SubSeq(s, 1, Len(s) - 1)) ELSE s
Strip(s) == RStrip(LStrip(s))

\* an Optional[str] holding text: the response of call_ollama_api
NoResponse == [isNone |-> TRUE, text |-> <<>>]
Response(text) == [isNone |-> FALSE, text |-> text]

\* an extraction that tries the plain fence before the tagged one
ExtractPythonCodePlainFirst(llm_response) ==
  IF llm_response.isNone \/ llm_response.text = <<>> THEN <<>>
  ELSE
    LET r == llm_response.text
        start_marker == <<FENCE, PY>>
        start1 == Find(r, start_marker, 0) + Len(start_marker)
        end1 == Find(r, <<FENCE>>, start1)
        start2 == Find(r, <<FENCE>>, 0) + Len(<<FENCE>>)
        end2 == Find(r, <<FENCE>>, start2)
    IN IF Find(r, <<FENCE>>, 0) # -1 /\ end2 # -1
         THEN Strip(Slice(r, start2, end2))
       ELSE IF Find(r, start_marker, 0) # -1 /\ end1 # -1
         THEN Strip(Slice(r, start1, end1))
       ELSE Strip(r)

\* an extraction that takes what follows a tagged fence that is never closed
ExtractPythonCodeUnterminated(llm_response) ==
  IF llm_response.isNone \/ llm_response.text = <<>> THEN <<>>
  ELSE
    LET r == llm_response.text
        start_marker == <<FENCE, PY>>
        start1 == Find(r, start_marker, 0) + Len(start_marker)
        end1 == Find(r, <<FENCE>>, start1)
        start2 == Find(r, <<FENCE>>, 0) + Len(<<FENCE>>)
        end2 == Find(r, <<FENCE>>, start2)
    IN IF Find(r, start_marker, 0) # -1
         THEN Strip(Slice(r, start1, IF end1 # -1 THEN end1 ELSE Len(r)))
       ELSE IF Find(r, <<FENCE>>, 0) # -1 /\ end2 # -1
         THEN Strip(Slice(r, start2, end2))
       ELSE Strip(r)

\* an extraction that captures up to the last fence of the text
ExtractPythonCodeGreedy(llm_response) ==
  IF llm_response.isNone \/ llm_response.text = <<>> THEN <<>>
  ELSE
    LET r == llm_response.text
        start_marker == <<FENCE, PY>>
        start1 == Find(r, start_marker, 0) + Len(start_marker)
        start2 == Find(r, <<FENCE>>, 0) + Len(<<FENCE>>)
        hits == {i \in 0..(Len(r) - 1) : r[i + 1] = FENCE}
        end == IF hits = {} THEN -1 ELSE CHOOSE i \in hits : \A k \in hits : i >= k
    IN IF Find(r, start_marker, 0) # -1 /\ end >= start1
         THEN Strip(Slice(r, start1, end))
       ELSE IF Find(r, <<FENCE>>, 0) # -1 /\ end >= start2
         THEN Strip(Slice(r, start2, end))
       ELSE Strip(r)

\* extract_python_code
ExtractPythonCode(llm_response) ==
  IF llm_response.isNone \/ llm_response.text = <<>> THEN <<>>
  ELSE
    LET r == llm_response.text
        start_marker == <<FENCE, PY>>
        start1 == Find(r, start_marker, 0) + Len(start_marker)
        end1 == Find(r, <<FENCE>>, start1)
        start2 == Find(r, <<FENCE>>, 0) + Len(<<FENCE>>)
        end2 == Find(r, <<FENCE>>, start2)
    IN IF Find(r, start_marker, 0) # -1 /\ end1 # -1
         THEN Strip(Slice(r, start1, end1))
       ELSE IF Find(r, <<FENCE>>, 0) # -1 /\ end2 # -1
         THEN Strip(Slice(r, start2, end2))
       ELSE Strip(r)

\* ------------------------------------------------------- generated code
\* the statements generated code is made of
S_RET_X == "def f(x): return x"
S_RET_1 == "def f(x): return 1"
S_G_STR1 == "def g(x): return '1'"
S_BOOM == "def f(x): raise ValueError('boom')"
S_EMPTY == "def f(x): raise ValueError()"
S_EXIT == "def f(x): raise SystemExit(1)"
S_IMPORT == "import sys"
S_DUNDER == "def __h(x): return 0"
S_CALL_G == "def f(x): return g(x)"
S_LEAK == "__builtins__['g'] = lambda x: 'leak'"
S_LOOP == "def f(x): while True: pass"
Statements ==
  {S_RET_X, S_RET_1, S_G_STR1, S_BOOM, S_EMPTY, S_EXIT, S_IMPORT, S_DUNDER,
   S_CALL_G, S_LEAK, S_LOOP}

\* the binding a statement introduces: its name, callable(obj), and what
\* calling it does
Binding(stmt) ==
  CASE stmt = S_RET_X -> [name |-> "f", callable |-> TRUE, body |-> "return x"]
    [] stmt = S_RET_1 -> [name |-> "f", callable |-> TRUE, body |-> "return 1"]
    [] stmt = S_G_STR1 -> [name |-> "g", callable |-> TRUE, body |-> "return '1'"]
    [] stmt = S_BOOM -> [name |-> "f", callable |-> TRUE, body |-> "raise boom"]
    [] stmt = S_EMPTY -> [name |-> "f", callable |-> TRUE, body |-> "raise empty"]
    [] stmt = S_EXIT -> [name |-> "f", callable |-> TRUE, body |-> "raise SystemExit"]
    [] stmt = S_IMPORT -> [name |-> "sys", callable |-> FALSE, body |-> ""]
    [] stmt = S_CALL_G -> [name |-> "f", callable |-> TRUE, body |-> "return g(x)"]
    [] stmt = S_LOOP -> [name |-> "f", callable |-> TRUE, body |-> "while True"]
    [] OTHER -> [name |-> "__h", callable |-> TRUE, body |-> "return 0"]

\* name.startswith('__') for the names of the model
StartsWithDunder(name) == name \in {"__builtins__", "__h"}

\* execution_namespace = {} as exec() sees it: exec adds __builtins__ first
EmptyNamespace == <<[name |-> "__builtins__", callable |-> FALSE, body |-> ""]>>

\* the interpreter the generated code runs in: ns is the namespace dict of the
\* last execute_code_safely, builtins the names added to the builtins module,
\* which every exec shares
FreshInterpreter == [ns |-> EmptyNamespace, builtins |-> {}]

\* line 105: the dict exec gets, whatever the call before left
NewNamespace(old) == EmptyNamespace

\* namespace[name] = obj: a dict keeps the position of a key it already has
Bind(ns, b) ==
  IF \E i \in 1..Len(ns) : ns[i].name = b.name
  THEN [i \in 1..Len(ns) |-> IF ns[i].name = b.name THEN b ELSE ns[i]]
  ELSE Append(ns, b)

\* the statements of compiled code run in order; status "ok", or "exc" (an
\* Exception with str(e) = msg)
RECURSIVE RunStatements(_, _, _)
RunStatements(code, ns, builtins) ==
  IF code = <<>>
    THEN [status |-> "ok", msg |-> "", ns |-> ns, builtins |-> builtins]
  ELSE IF Head(code) = WS THEN RunStatements(Tail(code), ns, builtins)
  ELSE IF Head(code) = PY
    THEN [status |-> "exc", msg |-> "name 'python' is not defined", ns |-> ns,
          builtins |-> builtins]
  ELSE IF Head(code) = S_LEAK
    THEN RunStatements(Tail(code), ns, builtins \cup {"g"})
  ELSE RunStatements(Tail(code), Bind(ns, Binding(Head(code))), builtins)

\* exec(code, execution_namespace): the whole text is compiled first
Exec(code, execution_namespace, builtins) ==
  IF \E i \in 1..Len(code) : code[i] \notin Statements \cup {WS, PY}
  THEN [status |-> "exc", msg |-> "invalid syntax (<string>, line 1)",
        ns |-> execution_namespace, builtins |-> builtins]
  ELSE RunStatements(code, execution_namespace, builtins)

\* a loop over execution_namespace.items() that takes the last callable
LastCallable(ns) ==
  LET ok == {i \in 1..Len(ns) : ns[i].callable /\ ~StartsWithDunder(ns[i].name)}
  IN IF ok = {} THEN 0 ELSE CHOOSE i \in ok : \A k \in ok : i >= k

\* a loop over execution_namespace.items() that does not look at the name
FirstCallableAnyName(ns) ==
  LET ok == {i \in 1..Len(ns) : ns[i].callable}
  IN IF ok = {} THEN 0 ELSE CHOOSE i \in ok : \A k \in ok : i <= k

\* the loop over execution_namespace.items(): index of the first callable
\* whose name does not start with '__', 0 if there is none
FirstCallable(ns) ==
  LET ok == {i \in 1..Len(ns) : ns[i].callable /\ ~StartsWithDunder(ns[i].name)}
  IN IF ok = {} THEN 0 ELSE CHOOSE i \in ok : \A k \in ok : i <= k

\* a function body run on test_input: status "ok" with the returned value,
\* "exc" (an Exception with str(e) = msg), "base" (a BaseException that is no
\* Exception) or "hang" (the call never returns)
Call(body, test_input) ==
  CASE body = "return x" -> [status |-> "ok", value |-> test_input, msg |-> ""]
    [] body = "return 1" -> [status |-> "ok", value |-> JInt(1), msg |-> ""]
    [] body = "return '1'" -> [status |-> "ok", value |-> JStr("1"), msg |-> ""]
    [] body = "return 0" -> [status |-> "ok", value |-> JInt(0), msg |-> ""]
    [] body = "raise boom" -> [status |-> "exc", value |-> JNull, msg |-> "boom"]
    [] body = "raise empty" -> [status |-> "exc", value |-> JNull, msg |-> ""]
    [] body = "while True" -> [status |-> "hang", value |-> JNull, msg |-> ""]
    [] OTHER -> [status |-> "base", value |-> JNull, msg |-> "1"]

\* target_function(test_input): a body that calls g looks g up in the
\* function's globals (the namespace) and then in the builtins
CallFunction(ns, builtins, body, test_input) ==
  IF body # "return g(x)" THEN Call(body, test_input)
  ELSE IF \E i \in 1..Len(ns) : ns[i].name = "g"
    THEN Call(ns[CHOOSE i \in 1..Len(ns) : ns[i].name = "g"].body, test_input)
  ELSE IF "g" \in builtins
    THEN [status |-> "ok", value |-> JStr("leak"), msg |-> ""]
  ELSE [status |-> "exc", value |-> JNull, msg |-> "name 'g' is not defined"]

\* what except Exception catches
ExceptCatches(status) == status = "exc"

\* execute_code_safely run in the interpreter state: result and error are the
\* returned pair; returned says whether the call returned at all (an exception
\* the except clause does not catch leaves the function, a call that hangs
\* never ends); ok says the return was the one after the call; called and
\* body say which binding target_function was; interp is the interpreter left
\* behind
ExecuteCodeSafely(state, code, test_input) ==
  LET execution_namespace == NewNamespace(state.ns)
      loaded == Exec(code, execution_namespace, state.builtins)
      after == [ns |-> loaded.ns, builtins |-> loaded.builtins]
      target == FirstCallable(loaded.ns)
      called == CallFunction(loaded.ns, loaded.builtins,
                             loaded.ns[target].body, test_input)
      found == loaded.status = "ok" /\ target # 0
      out(returned, hangs, ok, res, err) ==
        [returned |-> returned, hangs |-> hangs, ok |-> ok, result |-> res,
         error |-> err, interp |-> after,
         called |-> IF found THEN loaded.ns[target].name ELSE None,
         body |-> IF found THEN loaded.ns[target].body ELSE None]
  IN IF loaded.status # "ok"
       THEN out(TRUE, FALSE, FALSE, None, loaded.msg)
     ELSE IF target = 0
       THEN out(TRUE, FALSE, FALSE, None,
                "No callable function found in generated code")
     ELSE IF called.status = "ok"
       THEN out(TRUE, FALSE, TRUE, Str(called.value), None)
     ELSE IF ExceptCatches(called.status)
       THEN out(TRUE, FALSE, FALSE, None, called.msg)
     ELSE out(FALSE, called.status = "hang", FALSE, None, None)

\* ---------------------------------------------------------------- prompts
INITIAL_PROMPT_TEMPLATE == <<"{query}", "Write a Python function that solves this problem. ...">>
RETRY_PROMPT_TEMPLATE ==
  <<"{query}", "The previous code failed with this error: ", "{error}",
    "Previous code was:", "{previous_code}",
    "Write a corrected Python function. ...">>

\* str.format: each field of the template is replaced by its argument, the
\* rest is copied
RECURSIVE Format(_, _, _, _)
Format(template, query, error, previous_code) ==
  IF template = <<>> THEN <<>>
  ELSE (CASE Head(template) = "{query}" -> <<query>>
          [] Head(template) = "{error}" -> <<error>>
          [] Head(template) = "{previous_code}" -> previous_code
          [] OTHER -> <<Head(template)>>)
       \o Format(Tail(template), query, error, previous_code)

RenderInitial(query) == Format(INITIAL_PROMPT_TEMPLATE, query, "", <<>>)

\* a retry prompt that leaves the error out
RenderRetryWithoutError(query, error, previous_code) ==
  Format(RETRY_PROMPT_TEMPLATE, query, "", previous_code)

RenderRetry(query, error, previous_code) ==
  Format(RETRY_PROMPT_TEMPLATE, query, error, previous_code)

\* ------------------------------------------------------------ environment
\* what the completion service does with one POST
Outcomes == {"Success", "Timeout", "TransportError", "NoResponseField"}

\* the texts the model answers with
Responses ==
  { <<FENCE, PY, WS, S_RET_X, WS, FENCE>>,
    <<S_RET_1>>,
    <<S_BOOM>>,
    <<S_EMPTY>>,
    <<S_IMPORT, WS, S_EXIT>>,
    <<FENCE, PY, WS, S_RET_X>>,
    <<S_IMPORT, WS, S_DUNDER>>,
    <<S_LOOP>>,
    <<>> }

\* the test-case records found in the files
Rec(q, i, o) == JDict(<< <<"query", q>>, <<"test_input", i>>, <<"test_output", o>> >>)
Records ==
  { Rec(JStr("q"), JInt(1), JInt(1)),
    Rec(JStr("q"), JInt(1), JStr("1")),
    Rec(JStr("q"), JInt(0), JBool(FALSE)),
    Rec(JStr("q"), JNull, JInt(1)),
    Rec(JStr(""), JInt(1), JInt(1)),
    JDict(<< <<"query", JStr("q")>>, <<"test_input", JInt(1)>> >>) }

\* the values of a multi-problem file: records and one value that is no dict
Entries == Records \cup {JInt(1)}
ProblemKeys == <<"p1", "p2", "p3", "p4">>
MultiFiles ==
  { JDict([i \in 1..n |-> <<ProblemKeys[i], es[i]>>]) :
      n \in 0..MaxRecords, es \in [1..MaxRecords -> Entries] }

\* what open() and json.load() give for a file: "error" (unreadable or no
\* JSON), or the parsed data: a dict or a list
JList == [t |-> "list", n |-> 0, s |-> "", d |-> <<>>]
FileContents ==
  {[status |-> "error", data |-> JNull]}
    \cup {[status |-> "ok", data |-> x] : x \in Records \cup MultiFiles \cup {JList}}

\* -------------------------------------------------------------- the tester
\* a check_ollama_health that reports success whatever the GET did
CheckOllamaHealthAlwaysTrue(probe) == TRUE

\* check_ollama_health, given what the GET did
CheckOllamaHealth(probe) == probe = "ok"

\* a call_ollama_api that returns an empty text, not None, on a timeout
CallOllamaApiEmptyOnTimeout(outcome, text) ==
  CASE outcome = "Success" -> [returned |-> TRUE, response |-> Response(text)]
    [] outcome = "Timeout" -> [returned |-> TRUE, response |-> Response(<<>>)]
    [] outcome = "TransportError" -> [returned |-> TRUE, response |-> NoResponse]
    [] OTHER -> [returned |-> FALSE, response |-> NoResponse]

\* call_ollama_api, given what the POST did: returned says whether the call
\* returned at all (a KeyError is not caught), response is what it returned
CallOllamaApi(outcome, text) ==
  CASE outcome = "Success" -> [returned |-> TRUE, response |-> Response(text)]
    [] outcome = "Timeout" -> [returned |-> TRUE, response |-> NoResponse]
    [] outcome = "TransportError" -> [returned |-> TRUE, response |-> NoResponse]
    [] OTHER -> [returned |-> FALSE, response |-> NoResponse]

\* a retry test that forgets to look at the error
NeedsRetryWheneverBudget(error, max_retries) == max_retries > 0

\* the test of line 141: if error and MAX_RETRIES > 0
NeedsRetry(error, max_retries) == TruthyStr(error) /\ max_retries > 0

\* the validation of process_single_problem on a dict
ValidProblem(problem_data) ==
  /\ Truthy(Get(problem_data.d, "query"))
  /\ Get(problem_data.d, "test_input") # JNull
  /\ Get(problem_data.d, "test_output") # JNull

\* _is_single_problem_format
IsSingleProblemFormat(data) ==
  {"query", "test_input", "test_output"} \subseteq Keys(data.d)

\* a _print_test_results that compares with the expected value's text, not
\* with str(expected_output)
PrintTestResultsNoStr(actual_output, expected_output, error) ==
  IF TruthyStr(error)
    THEN [kind |-> "FailedNoExecution", msg |-> error]
  ELSE IF actual_output = expected_output.s
    THEN [kind |-> "Passed", msg |-> actual_output]
  ELSE [kind |-> "FailedMismatch", msg |-> actual_output]

\* _print_test_results: the result line printed
PrintTestResults(actual_output, expected_output, error) ==
  IF TruthyStr(error)
    THEN [kind |-> "FailedNoExecution", msg |-> error]
  ELSE IF actual_output = Str(expected_output)
    THEN [kind |-> "Passed", msg |-> actual_output]
  ELSE [kind |-> "FailedMismatch", msg |-> actual_output]

NoVerdict == [kind |-> "none", msg |-> ""]
NoCase == [query |-> JNull, test_input |-> JNull, expected_output |-> JNull]

\* number of test cases of a loaded file that pass the validation
ValidCount(data) ==
  IF IsSingleProblemFormat(data) THEN (IF ValidProblem(data) THEN 1 ELSE 0)
  ELSE Cardinality({i \in 1..Len(data.d) :
                      data.d[i][2].t = "dict" /\ ValidProblem(data.d[i][2])})

\* the keys a test-case record must have
RequiredKeys == {"query", "test_input", "test_output"}

\* a dict that is a test-case record with a key missing: at the top level of a
\* file it has some of the keys (with none of them the file is a mapping of
\* problems), as a value of a multi-problem file it is any dict without all
MissingKeyAtTop(data) ==
  /\ data.t = "dict"
  /\ Keys(data.d) \cap RequiredKeys # {}
  /\ ~(RequiredKeys \subseteq Keys(data.d))
MissingKeyEntry(entry) ==
  entry.t = "dict" /\ ~(RequiredKeys \subseteq Keys(entry.d))

\* number of items of a dict that are records with a key missing
MissingKeyAhead(items) ==
  Cardinality({i \in 1..Len(items) : MissingKeyEntry(items[i][2])})

\* number of records with a key missing in a loaded file
MissingKeyCount(data) ==
  IF MissingKeyAtTop(data) THEN 1
  ELSE IF IsSingleProblemFormat(data) THEN 0
  ELSE MissingKeyAhead(data.d)

VARIABLES
  pc,             \* where the run is
  exitCode,       \* -1 while running, else the exit status of the process
  argc,           \* len(sys.argv)
  rootKind,       \* what sys.argv[1] names: "missing", "file" or "dir"
  MAX_RETRIES,    \* the retry budget
  healthProbes,   \* GETs sent by check_ollama_health
  health,         \* history: what the GET did: "unprobed", "ok" or "failed"
  json_files,     \* len(json_files) in run
  filesOpened,    \* files process_json_file has been called on
  problems,       \* the items of the open file still to be processed
  cur,            \* query, test_input, expected_output of process_single_problem
  llm_response, generated_code, result, error,  \* of generate_and_test_code
  completions,    \* history: prompt and outcome of each POST for this test case
  invoked,        \* history: each execute_code_safely of this test case
  verdict,        \* the result line printed for this test case
  pending,        \* history: valid test cases loaded from the files so far
                  \* that have no result line yet
  escaped,        \* history: an exception left execute_code_safely
  interp,         \* the interpreter state the generated code runs in
  unreported,     \* history: records with a key missing in the file loaded
                  \* last for which no "Invalid problem data" line was
                  \* printed yet
  fnResponse,     \* extract_python_code on its own: its argument
  fnExtracted,    \* ... and what it returned, for the argument and then for
                  \* its own output
  fnArg,          \* execute_code_safely on its own: the test input
  fnCount,        \* ... the number of calls made
  fnRun           \* ... and the last call: its code, the builtins it found
                  \* and what it did

vars ==
  <<pc, exitCode, argc, rootKind, MAX_RETRIES, healthProbes, health, json_files,
    filesOpened, problems, cur, llm_response, generated_code, result, error,
    completions, invoked, verdict, pending, escaped, interp, unreported,
    fnResponse, fnExtracted, fnArg, fnCount, fnRun>>

fnVars == <<fnResponse, fnExtracted, fnArg, fnCount, fnRun>>
runVars == <<argc, rootKind, MAX_RETRIES, fnVars>>
caseVars == <<cur, llm_response, generated_code, result, error, completions,
              invoked, verdict, interp>>
histVars == <<pending, escaped, unreported>>

NoRun == [code |-> <<>>, builtins |-> {},
          returned |-> FALSE, hangs |-> FALSE, ok |-> FALSE, result |-> None,
          error |-> None, called |-> None, body |-> None]

\* the state before main runs, and the functions on their own not in use
RunNotStarted ==
  /\ exitCode = -1
  /\ healthProbes = 0
  /\ health = "unprobed"
  /\ json_files = 0
  /\ filesOpened = 0
  /\ problems = <<>>
  /\ cur = NoCase
  /\ llm_response = NoResponse
  /\ generated_code = <<>>
  /\ result = None
  /\ error = None
  /\ completions = <<>>
  /\ invoked = <<>>
  /\ verdict = NoVerdict
  /\ pending = 0
  /\ escaped = FALSE
  /\ interp = FreshInterpreter
  /\ unreported = 0
FnNotUsed ==
  /\ fnResponse = NoResponse
  /\ fnExtracted = <<>>
  /\ fnArg = JNull
  /\ fnCount = 0
  /\ fnRun = NoRun

Init ==
  /\ pc = "main"
  /\ argc \in {1, 2}
  /\ rootKind \in {"missing", "file", "dir"}
  /\ MAX_RETRIES \in RetryBudgets
  /\ RunNotStarted
  /\ FnNotUsed

\* sys.exit(code), or an exception nothing catches
Exit(code) == pc' = "exited" /\ exitCode' = code

\* the locals of process_single_problem and generate_and_test_code, and the
\* history of the test case, are gone once the next item is looked at
ResetCase ==
  /\ cur' = NoCase
  /\ llm_response' = NoResponse
  /\ generated_code' = <<>>
  /\ result' = None
  /\ error' = None
  /\ completions' = <<>>
  /\ invoked' = <<>>
  /\ verdict' = NoVerdict
  /\ interp' = [interp EXCEPT !.ns = EmptyNamespace]

\* main, up to the call of tester.run
Main ==
  /\ pc = "main"
  /\ IF argc # 2 \/ rootKind # "dir" THEN Exit(1)
     ELSE pc' = "health" /\ exitCode' = exitCode
  /\ UNCHANGED <<runVars, healthProbes, health, json_files, filesOpened,
                 problems, caseVars, histVars>>

\* run: the health check and the exit on its failure
RunHealthCheck ==
  /\ pc = "health"
  /\ \E probe \in {"ok", "refused", "http_error"} :
       /\ healthProbes' = healthProbes + 1
       /\ health' = IF probe = "ok" THEN "ok" ELSE "failed"
       /\ IF CheckOllamaHealth(probe)
          THEN pc' = "discover" /\ exitCode' = exitCode
          ELSE Exit(1)
  /\ UNCHANGED <<runVars, json_files, filesOpened, problems, caseVars, histVars>>

\* run: _discover_json_files (n = -1: os.listdir raised) and the early return
DiscoverJsonFiles ==
  /\ pc = "discover"
  /\ \E n \in -1..MaxFiles :
       /\ json_files' = IF n = -1 THEN 0 ELSE n
       /\ IF json_files' = 0 THEN pc' = "done" /\ exitCode' = 0
          ELSE pc' = "file" /\ exitCode' = exitCode
  /\ UNCHANGED <<runVars, healthProbes, health, filesOpened, problems, caseVars,
                 histVars>>

\* run: the end of the loop over the files
RunCompleted ==
  /\ pc = "file"
  /\ filesOpened = json_files
  /\ pc' = "done"
  /\ exitCode' = 0
  /\ UNCHANGED <<runVars, healthProbes, health, json_files, filesOpened,
                 problems, caseVars, histVars>>

\* process_json_file up to the first test case: open, json.load, the format
\* test; every Exception ends the file with an error line
ProcessJsonFile ==
  /\ pc = "file"
  /\ filesOpened < json_files
  /\ filesOpened' = filesOpened + 1
  /\ ResetCase
  /\ \E file \in FileContents :
       IF file.status = "error" \/ file.data.t # "dict"
       THEN /\ pc' = "file"
            /\ unreported' = 0
            /\ UNCHANGED <<problems, pending>>
       ELSE /\ pc' = "problem"
            /\ problems' = IF IsSingleProblemFormat(file.data)
                           THEN << <<"file", file.data>> >>
                           ELSE file.data.d
            /\ pending' = pending + ValidCount(file.data)
            /\ unreported' = MissingKeyCount(file.data)
  /\ UNCHANGED <<runVars, exitCode, healthProbes, health, json_files, escaped>>

\* the end of process_json_file: no test case is left
FileCompleted ==
  /\ pc = "problem"
  /\ problems = <<>>
  /\ pc' = "file"
  /\ ResetCase
  /\ UNCHANGED <<runVars, exitCode, healthProbes, health, json_files,
                 filesOpened, problems, histVars>>

\* the next item of the file: the isinstance test of _process_multiple_problems
\* and process_single_problem up to the call of generate_and_test_code
ProcessSingleProblem ==
  /\ pc = "problem"
  /\ problems # <<>>
  /\ problems' = Tail(problems)
  /\ LET problem_data == Head(problems)[2]
     IN IF problem_data.t = "dict" /\ ValidProblem(problem_data)
        THEN /\ pc' = "call1"
             /\ cur' = [query |-> Get(problem_data.d, "query"),
                        test_input |-> Get(problem_data.d, "test_input"),
                        expected_output |-> Get(problem_data.d, "test_output")]
             /\ llm_response' = NoResponse
             /\ generated_code' = <<>>
             /\ result' = None
             /\ error' = None
             /\ completions' = <<>>
             /\ invoked' = <<>>
             /\ verdict' = NoVerdict
             /\ interp' = interp
             /\ unreported' = unreported
        ELSE /\ pc' = "problem"
             /\ ResetCase
             /\ unreported' = IF problem_data.t = "dict" /\ MissingKeyEntry(problem_data)
                               THEN unreported - 1 ELSE unreported
  /\ UNCHANGED <<runVars, exitCode, healthProbes, health, json_files,
                 filesOpened, pending, escaped>>

\* an Exception raised below process_json_file is caught there: the file ends
\* with an error line and run goes on to the next file
FileFailed == pc' = "file" /\ problems' = <<>>

\* generate_and_test_code: the initial prompt, the call of call_ollama_api and
\* the return when there is no response
GenerateInitial ==
  /\ pc = "call1"
  /\ \E outcome \in Outcomes :
     \E text \in IF outcome = "Success" THEN Responses ELSE {<<>>} :
       LET prompt == RenderInitial(Str(cur.query))
           call == CallOllamaApi(outcome, text)
       IN /\ completions' = Append(completions, [prompt |-> prompt, outcome |-> outcome, text |-> text])
          /\ IF ~call.returned
             THEN /\ FileFailed
                  /\ UNCHANGED <<llm_response, result, error>>
             ELSE /\ llm_response' = call.response
                  /\ problems' = problems
                  /\ IF call.response.isNone
                     THEN /\ pc' = "report"
                          /\ result' = None
                          /\ error' = "Failed to get response from LLM"
                     ELSE /\ pc' = "test1"
                          /\ UNCHANGED <<result, error>>
  /\ UNCHANGED <<runVars, exitCode, healthProbes, health, json_files,
                 filesOpened, cur, generated_code, invoked, verdict, interp,
                 histVars>>

\* an attempt that runs the code it already has, not the new response
TestAttemptStaleCode(next) ==
  LET code == generated_code
      run == ExecuteCodeSafely(interp, code, cur.test_input)
  IN /\ generated_code' = code
     /\ interp' = run.interp
     /\ result' = run.result
     /\ error' = run.error
     /\ invoked' = Append(invoked, [code |-> code, input |-> cur.test_input,
                                    ok |-> run.ok, result |-> run.result,
                                    error |-> run.error])
     /\ escaped' = escaped
     /\ exitCode' = exitCode
     /\ pc' = next

\* generate_and_test_code: extraction and execution of an attempt; a
\* BaseException out of execute_code_safely ends the process, a call that
\* never returns leaves the run where it is for good
TestAttempt(next) ==
  LET code == ExtractPythonCode(llm_response)
      run == ExecuteCodeSafely(interp, code, cur.test_input)
  IN /\ generated_code' = code
     /\ interp' = run.interp
     /\ IF run.hangs
        THEN /\ pc' = "hung"
             /\ UNCHANGED <<exitCode, escaped, result, error, invoked>>
        ELSE IF ~run.returned
        THEN /\ Exit(1)
             /\ escaped' = TRUE
             /\ UNCHANGED <<result, error, invoked>>
        ELSE /\ result' = run.result
             /\ error' = run.error
             /\ invoked' = Append(invoked, [code |-> code, input |-> cur.test_input,
                                            ok |-> run.ok, result |-> run.result,
                                            error |-> run.error])
             /\ escaped' = escaped
             /\ exitCode' = exitCode
             /\ pc' = next

\* the first attempt and the test whether to retry
TestInitial ==
  /\ pc = "test1"
  /\ TestAttempt(IF NeedsRetry(error', MAX_RETRIES) THEN "call2" ELSE "report")
  /\ UNCHANGED <<runVars, healthProbes, health, json_files, filesOpened,
                 problems, cur, llm_response, completions, verdict, pending,
                 unreported>>

\* the retry prompt, the second call of call_ollama_api and the return when
\* there is no response
GenerateRetry ==
  /\ pc = "call2"
  /\ \E outcome \in Outcomes :
     \E text \in IF outcome = "Success" THEN Responses ELSE {<<>>} :
       LET retry_prompt == RenderRetry(Str(cur.query), error, generated_code)
           call == CallOllamaApi(outcome, text)
       IN /\ completions' = Append(completions, [prompt |-> retry_prompt, outcome |-> outcome, text |-> text])
          /\ IF ~call.returned
             THEN /\ FileFailed
                  /\ UNCHANGED <<llm_response, result, error>>
             ELSE /\ llm_response' = call.response
                  /\ problems' = problems
                  /\ IF call.response.isNone
                     THEN /\ pc' = "report"
                          /\ result' = None
                          /\ error' = "Failed to get response from LLM on retry"
                     ELSE /\ pc' = "test2"
                          /\ UNCHANGED <<result, error>>
  /\ UNCHANGED <<runVars, exitCode, healthProbes, health, json_files,
                 filesOpened, cur, generated_code, invoked, verdict, interp,
                 histVars>>

\* the second attempt
TestRetry ==
  /\ pc = "test2"
  /\ TestAttempt("report")
  /\ UNCHANGED <<runVars, healthProbes, health, json_files, filesOpened,
                 problems, cur, llm_response, completions, verdict, pending,
                 unreported>>

\* process_single_problem: the call of _print_test_results
ReportResults ==
  /\ pc = "report"
  /\ verdict' = PrintTestResults(result, cur.expected_output, error)
  /\ pending' = pending - 1
  /\ pc' = "problem"
  /\ UNCHANGED <<runVars, exitCode, healthProbes, health, json_files,
                 filesOpened, problems, cur, llm_response, generated_code,
                 result, error, completions, invoked, escaped, interp,
                 unreported>>

Next ==
  \/ Main
  \/ RunHealthCheck
  \/ DiscoverJsonFiles
  \/ RunCompleted
  \/ ProcessJsonFile
  \/ FileCompleted
  \/ ProcessSingleProblem
  \/ GenerateInitial
  \/ TestInitial
  \/ GenerateRetry
  \/ TestRetry
  \/ ReportResults

Spec == Init /\ [][Next]_vars

\* ------------------------------------------- extract_python_code on its own
\* the response texts: every sequence of fences, language tags, blanks and
\* code up to MaxTextLen tokens
TextTokens == {FENCE, PY, WS, S_RET_X}
Texts == UNION {[1..n -> TextTokens] : n \in 0..MaxTextLen}

ExtractInit ==
  /\ pc = "extract"
  /\ argc = 1
  /\ rootKind = "dir"
  /\ MAX_RETRIES = DefaultMaxRetries
  /\ RunNotStarted
  /\ fnResponse \in {NoResponse} \cup {Response(t) : t \in Texts}
  /\ fnExtracted = <<>>
  /\ fnArg = JNull
  /\ fnCount = 0
  /\ fnRun = NoRun

\* extract_python_code(llm_response)
ExtractCode ==
  /\ pc = "extract"
  /\ fnExtracted = <<>>
  /\ fnExtracted' = <<ExtractPythonCode(fnResponse)>>
  /\ UNCHANGED <<pc, exitCode, argc, rootKind, MAX_RETRIES, healthProbes,
                 health, json_files, filesOpened, problems, caseVars,
                 histVars, fnResponse, fnArg, fnCount, fnRun>>

\* extract_python_code of what extract_python_code returned
ExtractCodeAgain ==
  /\ pc = "extract"
  /\ Len(fnExtracted) = 1
  /\ fnExtracted' = Append(fnExtracted, ExtractPythonCode(Response(fnExtracted[1])))
  /\ UNCHANGED <<pc, exitCode, argc, rootKind, MAX_RETRIES, healthProbes,
                 health, json_files, filesOpened, problems, caseVars,
                 histVars, fnResponse, fnArg, fnCount, fnRun>>

ExtractNext == ExtractCode \/ ExtractCodeAgain

ExtractSpec == ExtractInit /\ [][ExtractNext]_vars

\* ------------------------------------------- execute_code_safely on its own
\* the codes: every sequence of up to MaxCodeLen of these statements
InvokeStatements ==
  {S_RET_X, S_G_STR1, S_CALL_G, S_LEAK, S_IMPORT, S_DUNDER}
Codes == UNION {[1..n -> InvokeStatements] : n \in 0..MaxCodeLen}

InvokeInit ==
  /\ pc = "invoke"
  /\ argc = 1
  /\ rootKind = "dir"
  /\ MAX_RETRIES = DefaultMaxRetries
  /\ RunNotStarted
  /\ fnResponse = NoResponse
  /\ fnExtracted = <<>>
  /\ fnArg \in {JInt(0), JStr("a")}
  /\ fnCount = 0
  /\ fnRun = NoRun

\* execute_code_safely(code, test_input) in the interpreter as it is
Invoke(code) ==
  LET run == ExecuteCodeSafely(interp, code, fnArg)
  IN /\ fnRun' = [code |-> code,
                  builtins |-> interp.builtins, returned |-> run.returned,
                  hangs |-> run.hangs, ok |-> run.ok, result |-> run.result,
                  error |-> run.error, called |-> run.called,
                  body |-> run.body]
     /\ interp' = run.interp
     /\ fnCount' = fnCount + 1
     /\ UNCHANGED <<pc, exitCode, argc, rootKind, MAX_RETRIES, healthProbes,
                    health, json_files, filesOpened, problems, cur,
                    llm_response, generated_code, result, error, completions,
                    invoked, verdict, histVars, fnResponse, fnExtracted, fnArg>>

\* the first call made in the process
InvokeCode ==
  /\ pc = "invoke"
  /\ fnCount = 0
  /\ \E code \in Codes : Invoke(code)

\* the call after it: the retry, or the first attempt of the next test case
InvokeCodeAgain ==
  /\ pc = "invoke"
  /\ fnCount = 1
  /\ \E code \in Codes : Invoke(code)

InvokeNext == InvokeCode \/ InvokeCodeAgain

InvokeSpec == InvokeInit /\ [][InvokeNext]_vars

\* ================================================================= claims
\* a result line has been printed for the test case at hand
Judged == verdict # NoVerdict
\* the test case at hand is between its validation and its result line
Evaluating == pc \in {"call1", "test1", "call2", "test2", "report", "hung"}
LastInvoked == invoked[Len(invoked)]
\* sub occurs in text, verbatim and in one piece
Contains(text, sub) == Find(text, sub, 0) # -1
CompletionFailed(i) == completions[i].outcome \in {"Timeout", "TransportError"}

\* C1: with retry budget 1, a first attempt that executes without error but
\* whose result string differs from str(expected) is followed by no second
\* completion call, and the verdict is the output mismatch.
C1_MismatchDoesNotRetry ==
  (/\ MAX_RETRIES = 1
   /\ Len(invoked) >= 1
   /\ invoked[1].ok
   /\ invoked[1].result # Str(cur.expected_output))
  => /\ Len(completions) = 1
     /\ Len(invoked) = 1
     /\ pc \in {"report", "problem"}
     /\ (pc = "problem" => Judged)
     /\ (Judged => verdict.kind = "FailedMismatch")

C1_Witness ==
  /\ MAX_RETRIES = 1
  /\ Judged
  /\ Len(invoked) = 1
  /\ invoked[1].ok
  /\ invoked[1].result # Str(cur.expected_output)
  /\ verdict.kind = "FailedMismatch"
  /\ Len(completions) = 1

\* C2: for every test case there are at most two completion calls and at most
\* two invocations, and once the test case is over exactly one verdict has
\* been reported for it.
C2_OneVerdictPerTestCase ==
  /\ Len(completions) <= 2
  /\ Len(invoked) <= 2
  /\ (cur # NoCase /\ ~Evaluating) => Judged

\* C3: an invocation that ends in a load error, a missing callable or an
\* exception is an execution failure whatever its message: at attempt 1 with
\* a retry budget it leads to the second completion call, and when it is the
\* last invocation the verdict is FailedNoExecution.
C3_EveryExecutionFailureIsHandledAsOne ==
  /\ (/\ Len(invoked) >= 1
      /\ ~invoked[1].ok
      /\ MAX_RETRIES >= 1
      /\ pc \in {"report", "problem"})
     => Len(completions) = 2
  /\ (Judged /\ invoked # <<>> /\ ~LastInvoked.ok)
     => verdict.kind = "FailedNoExecution"

\* C4: with retry budget 0, a failed first invocation gives the verdict
\* FailedNoExecution with the error of that invocation, after exactly one
\* completion call.
C4_BudgetZeroFailsAtOnce ==
  (MAX_RETRIES = 0 /\ Len(invoked) >= 1 /\ ~invoked[1].ok)
  => /\ Len(completions) = 1
     /\ pc \in {"report", "problem"}
     /\ (Judged => verdict = [kind |-> "FailedNoExecution", msg |-> invoked[1].error])

\* C5: the prompt of the first completion call is the query followed by the
\* fixed template text; the prompt of the second completion call contains the
\* query, the code extracted in attempt 1 and the error of attempt 1 verbatim.
C5_RetryPromptCarriesCodeAndError ==
  /\ Len(completions) >= 1
     => completions[1].prompt = <<Str(cur.query)>> \o Tail(INITIAL_PROMPT_TEMPLATE)
  /\ Len(completions) = 2
     => /\ Len(invoked) >= 1
        /\ Contains(completions[2].prompt, <<Str(cur.query)>>)
        /\ Contains(completions[2].prompt, invoked[1].code)
        /\ Contains(completions[2].prompt, <<invoked[1].error>>)

C5_Witness ==
  /\ Len(completions) = 2
  /\ invoked[1].code = <<S_BOOM>>
  /\ invoked[1].error = "boom"
  /\ Contains(completions[2].prompt, <<S_BOOM>>)

\* C6: a completion call that times out or fails in transport ends the test
\* case: after the first call no extraction or invocation and no second call
\* follow and the verdict is FailedNoExecution "Failed to get response from
\* LLM"; after the retry call no second invocation follows and the verdict is
\* FailedNoExecution "Failed to get response from LLM on retry".  No request
\* is sent again: every call after the first follows an invocation.
C6_CompletionFailureIsTerminal ==
  /\ Len(completions) <= Len(invoked) + 1
  /\ (Len(completions) >= 1 /\ CompletionFailed(1))
     => /\ Len(completions) = 1
        /\ invoked = <<>>
        /\ generated_code = <<>>
        /\ pc \in {"report", "problem"}
        /\ (pc = "problem" => Judged)
        /\ (Judged => verdict = [kind |-> "FailedNoExecution",
                                 msg |-> "Failed to get response from LLM"])
  /\ (Len(completions) = 2 /\ CompletionFailed(2))
     => /\ Len(invoked) = 1
        /\ pc \in {"report", "problem"}
        /\ (pc = "problem" => Judged)
        /\ (Judged => verdict = [kind |-> "FailedNoExecution",
                                 msg |-> "Failed to get response from LLM on retry"])

C6_Witness ==
  /\ Judged
  /\ Len(completions) = 2
  /\ completions[2].outcome = "Timeout"
  /\ verdict.msg = "Failed to get response from LLM on retry"

\* C7: execute_code_safely never raises outward: whatever the generated code
\* does, the call returns to the evaluator.
C7_InvokerNeverRaisesOutward == ~escaped

\* C8: failures are isolated per test case: when the run completes, every
\* valid test case of every file that was loaded has got its verdict.
C8_FailuresAreIsolated == pc = "done" => pending = 0

\* C9: the verdict is Passed exactly when the last invocation of the test case
\* returned without error and the string form of its value equals
\* str(expected_output).
C9_PassedIffLastInvocationMatches ==
  Judged =>
    (verdict.kind = "Passed"
       <=> /\ invoked # <<>>
           /\ LastInvoked.ok
           /\ LastInvoked.result = Str(cur.expected_output))

C9_Witness ==
  /\ Judged
  /\ verdict.kind = "Passed"
  /\ Len(invoked) = 2
  /\ ~invoked[1].ok
  /\ invoked[2].code = <<S_RET_1>>
  /\ cur.expected_output = JStr("1")

\* C10: the health probe runs once and before any completion call; when it
\* fails the process exits with status 1 and no file is read, no test case is
\* processed and no completion call is made.
C10_HealthProbeFirst ==
  /\ healthProbes <= 1
  /\ (completions # <<>> \/ filesOpened > 0 \/ cur # NoCase)
     => (healthProbes = 1 /\ health = "ok")
  /\ health = "failed"
     => /\ pc = "exited"
        /\ exitCode = 1
        /\ filesOpened = 0
        /\ json_files = 0
        /\ cur = NoCase
        /\ completions = <<>>

C10_Witness == health = "failed" /\ pc = "exited" /\ exitCode = 1

\* C11: a record with a key missing is never evaluated and always gets its
\* error line, in the single-problem form and in the multi-problem form: as
\* long as the file is being worked on, every such record of the file that was
\* not reported yet is still waiting in the queue, and the run ends with
\* status zero.
C11_MissingKeyRecordIsReported ==
  /\ pc = "problem" => unreported = MissingKeyAhead(problems)
  /\ pc = "done" => exitCode = 0

\* a record with the three keys present and a non-empty string as query
CompleteRecord(entry) ==
  /\ entry.t = "dict"
  /\ RequiredKeys \subseteq Keys(entry.d)
  /\ Get(entry.d, "query").t = "str"
  /\ Get(entry.d, "query").s # ""

\* C12: once the root is a directory and the health probe succeeded, the run
\* completes whatever code is generated: it never stops for good inside a
\* test case, the process never ends but by the end of run, and at the end
\* every file was opened, every valid test case has its verdict and the
\* status is zero.
C12_RunAlwaysCompletes ==
  (rootKind = "dir" /\ health = "ok") =>
    /\ pc # "hung"
    /\ pc # "exited"
    /\ pc = "done" => (exitCode = 0 /\ filesOpened = json_files /\ pending = 0)

\* C17: a record with the three keys present and a non-empty string as query
\* is evaluated whatever JSON values test_input and test_output are: when it
\* is the next item of the file, the next step is its first completion call.
C17_CompleteRecordIsEvaluated ==
  [][(pc = "problem" /\ problems # <<>> /\ CompleteRecord(Head(problems)[2]))
       => pc' = "call1"]_vars

\* code that introduces no callable whose name does not start with '__'
CallableFree(code) == \A i \in 1..Len(code) : code[i] \in {WS, S_IMPORT, S_DUNDER}
NoCallableMessage == "No callable function found in generated code"

\* C18: empty or callable-free code makes the invocation fail with the error
\* "No callable function found in generated code", handled as an execution
\* failure: at attempt 1 with retry budget 1 the retry call follows, its
\* prompt carrying that message, and at the final attempt the verdict is
\* FailedNoExecution with that message.
C18_NoCallableIsAnExecutionFailure ==
  /\ \A i \in 1..Len(invoked) :
       CallableFree(invoked[i].code)
         => /\ ~invoked[i].ok
            /\ invoked[i].result = None
            /\ invoked[i].error = NoCallableMessage
  /\ (Len(invoked) >= 1 /\ CallableFree(invoked[1].code) /\ MAX_RETRIES = 1)
       => IF Len(completions) = 1 THEN pc = "call2"
          ELSE /\ Len(completions) = 2
               /\ Contains(completions[2].prompt, <<NoCallableMessage>>)
  /\ (Judged /\ invoked # <<>> /\ Len(invoked) = Len(completions)
        /\ CallableFree(LastInvoked.code))
       => verdict = [kind |-> "FailedNoExecution", msg |-> NoCallableMessage]

C18_Witness ==
  /\ Judged
  /\ Len(invoked) = 2
  /\ invoked[1].code = <<S_IMPORT, WS, S_DUNDER>>
  /\ invoked[2].code = <<>>
  /\ Contains(completions[2].prompt, <<NoCallableMessage>>)
  /\ verdict = [kind |-> "FailedNoExecution", msg |-> NoCallableMessage]

\* invocation i ran the code extracted from the response of completion call i,
\* a successful one, on the input of the test case at hand
RanAttempt(i) ==
  /\ i <= Len(completions)
  /\ completions[i].outcome = "Success"
  /\ invoked[i].code = ExtractPythonCode(Response(completions[i].text))
  /\ invoked[i].input = cur.test_input

\* C20: events are strictly ordered: a successful completion call is followed
\* by one extraction and one invocation of that attempt's code on the test
\* case's own input before the next completion call, and the first completion
\* call of a test case is made when nothing of another test case is left to
\* happen.
C20_EventsStrictlyOrdered ==
  /\ Len(completions) <= 2
  /\ Len(invoked) <= Len(completions)
  /\ \A i \in 1..Len(invoked) : RanAttempt(i)
  /\ pc = "call1" => (completions = <<>> /\ invoked = <<>> /\ ~Judged)
  /\ pc = "test1" => (Len(completions) = 1 /\ Len(invoked) = 0
                        /\ completions[1].outcome = "Success")
  /\ pc = "call2" => (Len(completions) = 1 /\ Len(invoked) = 1)
  /\ pc = "test2" => (Len(completions) = 2 /\ Len(invoked) = 1
                        /\ completions[2].outcome = "Success")

C20_Witness ==
  /\ pc = "problem"
  /\ Judged
  /\ Len(completions) = 2
  /\ Len(invoked) = 2
  /\ completions[1].text = <<S_BOOM>>
  /\ completions[2].text = <<FENCE, PY, WS, S_RET_X, WS, FENCE>>
  /\ invoked[2].code = <<S_RET_X>>
  /\ invoked[2].input = cur.test_input
  /\ cur.test_input = JInt(0)

\* what extract_python_code was given and what it returned for it
Extracted == fnExtracted # <<>>
GivenText == fnResponse.text
FenceCount(r) == Cardinality({i \in 1..Len(r) : r[i] = FENCE})

\* position of the first tagged fence, 0 if none
IsTaggedAt(r, i) == i < Len(r) /\ r[i] = FENCE /\ r[i + 1] = PY
FirstTagged(r) ==
  LET at == {i \in 1..Len(r) : IsTaggedAt(r, i)}
  IN IF at = {} THEN 0 ELSE CHOOSE i \in at : \A k \in at : i <= k
\* position of the first fence after position i, 0 if none
FenceAfter(r, i) ==
  LET at == {j \in (i + 1)..Len(r) : r[j] = FENCE}
  IN IF at = {} THEN 0 ELSE CHOOSE j \in at : \A k \in at : j <= k
HasClosedTagged(r) == FirstTagged(r) # 0 /\ FenceAfter(r, FirstTagged(r) + 1) # 0
\* a fence that is closed, before or after the tagged block
HasClosedPlain(r) ==
  \E i \in 1..Len(r) : r[i] = FENCE /\ ~IsTaggedAt(r, i) /\ FenceAfter(r, i) # 0

\* C14: when the response holds a closed tagged block and a plain block, in
\* whichever order, the result is the trimmed text between the first tagged
\* fence and the next fence after it.
C14_TaggedBlockIsSelected ==
  (Extracted /\ ~fnResponse.isNone /\ HasClosedTagged(GivenText)
     /\ HasClosedPlain(GivenText))
    => fnExtracted[1] =
         Strip(SubSeq(GivenText, FirstTagged(GivenText) + 2,
                      FenceAfter(GivenText, FirstTagged(GivenText) + 1) - 1))

C14_Witness ==
  /\ Extracted
  /\ GivenText = <<FENCE, FENCE, FENCE, PY, S_RET_X, FENCE>>
  /\ fnExtracted[1] = <<S_RET_X>>

\* C15: no unterminated capture: a text with at most one fence, so that no
\* fence is closed, gives the whole trimmed text, fence included; a capture
\* is always the text between a fence and a later fence; a tagged fence that
\* is never closed leaves the choice to the plain rule; an empty or missing
\* response gives the empty string.
C15_NoUnterminatedCapture ==
  Extracted =>
    LET r == GivenText
        out == fnExtracted[1]
        first == FenceAfter(r, 0)
    IN /\ (fnResponse.isNone \/ r = <<>>) => out = <<>>
       /\ FenceCount(r) <= 1 => out = Strip(r)
       /\ FenceCount(r) >= 2
            => \E i, j \in 1..Len(r) :
                 /\ i < j /\ r[i] = FENCE /\ r[j] = FENCE
                 /\ out = Strip(SubSeq(r, IF IsTaggedAt(r, i) THEN i + 2 ELSE i + 1, j - 1))
       /\ (FenceCount(r) >= 2 /\ FirstTagged(r) # 0 /\ ~HasClosedTagged(r))
            => out = Strip(SubSeq(r, first + 1, FenceAfter(r, first) - 1))

C15_Witness ==
  /\ Extracted
  /\ GivenText = <<FENCE, PY, WS, S_RET_X>>
  /\ fnExtracted[1] = <<FENCE, PY, WS, S_RET_X>>

\* C16: extract_python_code is idempotent: for every response text x,
\* extract(extract(x)) = extract(x).
C16_ExtractIsIdempotent ==
  Len(fnExtracted) = 2 => fnExtracted[2] = fnExtracted[1]

C16_Witness ==
  /\ Len(fnExtracted) = 2
  /\ GivenText = <<WS, FENCE, PY, S_RET_X, FENCE, WS>>
  /\ fnExtracted = << <<S_RET_X>>, <<S_RET_X>> >>

\* the statements of code that introduce a callable whose name does not start
\* with '__', by position
Defs(code) ==
  {i \in 1..Len(code) :
     code[i] \in {S_RET_X, S_RET_1, S_G_STR1, S_BOOM, S_EMPTY, S_EXIT, S_CALL_G,
                  S_LOOP}}
Min(S) == CHOOSE i \in S : \A k \in S : i <= k
Max(S) == CHOOSE i \in S : \A k \in S : i >= k

\* C13: execute_code_safely calls the first binding, in the order the code
\* introduced its bindings, that is callable and whose name does not start
\* with a double underscore, as that name is bound when the code has run: with
\* g defined before f it is g that gets the test input, and what a later
\* binding would return is never the result.
C13_FirstCallableIsInvoked ==
  fnCount >= 1 =>
    LET code == fnRun.code
        defs == Defs(code)
        name == Binding(code[Min(defs)]).name
        last == Max({i \in defs : Binding(code[i]).name = name})
        body == Binding(code[last]).body
    IN IF defs = {}
       THEN /\ fnRun.called = None
            /\ fnRun.error = "No callable function found in generated code"
       ELSE /\ fnRun.called = name
            /\ fnRun.body = body
            /\ (body # "return g(x)" /\ Call(body, fnArg).status = "ok")
                 => (fnRun.ok /\ fnRun.result = Str(Call(body, fnArg).value))
            /\ (body # "return g(x)" /\ Call(body, fnArg).status = "exc")
                 => (~fnRun.ok /\ fnRun.error = Call(body, fnArg).msg)

C13_Witness ==
  /\ fnCount >= 1
  /\ fnArg = JInt(0)
  /\ fnRun.code = <<S_G_STR1, S_RET_X>>
  /\ fnRun.called = "g"
  /\ fnRun.result = "1"

\* what the last call returned is what the same call returns in interpreter
\* state s
ReturnsAsIn(s) ==
  LET run == ExecuteCodeSafely(s, fnRun.code, fnArg)
  IN /\ fnRun.ok = run.ok
     /\ fnRun.result = run.result
     /\ fnRun.error = run.error
     /\ fnRun.called = run.called

\* C19: every invocation runs in a freshly created scope: nothing the code of
\* an earlier invocation introduced or modified is visible to the code of a
\* later one, so that a call returns what the same call returns in an
\* interpreter in which no generated code ran before.
C19_NoBindingCrossesInvocations ==
  fnCount >= 1 => ReturnsAsIn(FreshInterpreter)

====
